---------------------------- MODULE Spec2Model ----------------------------
(***************************************************************************)
(* A model of GPXAssist: the track builder and the nearest-point search of *)
(* src/src/gpx.rs, and the gradient view of src/src/ui/frame.rs: its       *)
(* window, the colours of its profile and its position marker.             *)
(*                                                                         *)
(* Numbers.  f64 values are modelled by integers.  Distances and altitudes *)
(* are metres.  A latitude is counted in steps of 100 m of arc on a sphere *)
(* of radius EARTH_RADIUS_METERS, and every waypoint of a GPX file lies on *)
(* the meridian lon = 0.  Of f64 arithmetic the model keeps the NaN of     *)
(* haversine_distance and the sign of the remainder %.                     *)
(***************************************************************************)
EXTENDS Integers, Sequences, FiniteSets, TLC

VARIABLES
    \* ---- a call of find_closest_point (gpx.rs:175) ----
    srch_track,       \* the slice track_data handed to the call
    srch_target,      \* target_distance
    srch_result,      \* NotCalled, or the pair the call returned
    srch_marker,      \* NotCalled, or what the lookup of draw_gradient_marker
                      \* (ui/frame.rs:766-782) found for the same slice and distance
    \* ---- a call of process_gpx / build_track_data (gpx.rs:94,138) ----
    bld_source,       \* the parsed GPX file: NoSegment, or the points of its first segment
    bld_method,       \* the DistanceMethod
    bld_result,       \* NotCalled, or the Result the call returned
    \* ---- the drawing of a profile, the loop of ui/frame.rs:669-727 ----
    prf_points,       \* the points me.gradient_points of the loop
    prf_flat,         \* flat_gradient
    prf_extreme,      \* extreme_gradient
    prf_segments,     \* NotCalled, or gradient_pct and the colour of every segment drawn
    \* ---- a call of the distance formulas and of calculate_bearing (gpx.rs:49-92, 211-230) ----
    geo_call,         \* NotCalled, or the two points and what the three functions returned
    \* ---- the cells the background threads share with update (ui/ui.rs:33-75), and the threads ----
    is_running,       \* Arc<AtomicBool>: the poller publishes
    is_simulating,    \* Arc<AtomicBool>: a simulation is wanted
    requested_delta,  \* cell: the Refresh distance
    pollers,          \* the update_distance_threads spawned, in order: locals and position
    simulators,       \* the simulate_movement_threads spawned, in order: locals and position
    last_store,       \* NotCalled, or which thread last stored into updated_distance (and
                      \* with it into rider_data), and when
    \* ---- GPXAssistUI (ui/ui.rs:33-75), the fields the gradient view uses ----
    gpx_file,                 \* gpx_file.is_some()
    gpx_track,
    total_distance,
    current_distance,
    updated_distance,         \* the cell the poller and the simulator store into
    current_position,         \* Option<TrackPoint>
    current_mode,
    is_first_gradient_frame,
    gradient_length,          \* cell
    gradient_offset,          \* cell
    gradient_start,
    gradient_end,
    gradient_points,
    gradient_distance,        \* updated_distance at the last drawing of the profile
    gradient_pixmap,          \* None, or the cached profile: what it was drawn from
    gradient_texture,         \* gradient_texture.is_some()
    vertical_scale,           \* cell
    toast,                    \* the last message given to toast_manager, "" when none
    open_dialog_channel,      \* the messages open_file_dialog has sent and update has not taken
    available_size,           \* ui.available_size() of the central panel
    \* ---- the last call of new_gradient_image (ui/frame.rs:534) ----
    gradient_call,            \* NotCalled, or its arguments, locals and result
    \* ---- the last call of draw_gradient_marker (ui/frame.rs:759) ----
    gradient_marker           \* NotCalled, or the marker it drew and what it drew it from

search_vars == <<srch_track, srch_target, srch_result, srch_marker>>
build_vars  == <<bld_source, bld_method, bld_result>>
profile_vars == <<prf_points, prf_flat, prf_extreme, prf_segments>>
geo_vars    == <<geo_call>>
thread_vars == <<is_running, is_simulating, requested_delta, pollers, simulators, last_store>>
ui_vars     == <<gpx_file, gpx_track, total_distance, current_distance, updated_distance,
                 current_position, current_mode, is_first_gradient_frame, gradient_length,
                 gradient_offset, gradient_start, gradient_end, gradient_points,
                 gradient_distance, gradient_pixmap, gradient_texture, vertical_scale, toast,
                 open_dialog_channel, available_size, gradient_call, gradient_marker>>

\* what the threads and the options of the gradient view leave alone
view_vars == <<vertical_scale, toast, open_dialog_channel, available_size>>

vars == <<search_vars, build_vars, profile_vars, geo_vars, thread_vars, ui_vars>>

-----------------------------------------------------------------------------
(* Bounds of the model *)

MaxTrackLen == 4      \* longest slice handed to the search
MaxDistance == 4      \* largest distance of a point of such a slice
MaxWaypoints == 3     \* most waypoints in the first segment of a GPX file
MaxLat == 2           \* largest latitude of a waypoint, in steps
LatStepMetres == 100  \* the arc of one latitude step on the sphere, in metres
ElevationMetres == 25 \* the elevation of a waypoint that has one
MaxStored == 2        \* the largest distance a thread stores, in steps of 125 m

-----------------------------------------------------------------------------
(* Values *)

None    == <<>>               \* Option::None
Some(x) == <<x>>              \* Option::Some(x)

NotCalled   == <<>>           \* no call has returned yet
Returned(r) == <<r>>          \* the call has returned r

\* gpx.rs:16-21
Point(lat, lon) == [lat |-> lat, lon |-> lon]

\* gpx.rs:23-30
TrackPoint(distance, point, heading, altitude) ==
    [distance |-> distance, point |-> point, heading |-> heading, altitude |-> altitude]

Min(a, b) == IF a <= b THEN a ELSE b
Max(a, b) == IF a >= b THEN a ELSE b
Abs(x) == IF x < 0 THEN 0 - x ELSE x      \* f64::abs

\* the distances of a slice are in non-decreasing order
IsSortedByDistance(td) ==
    \A a \in 1..Len(td) : \A b \in a..Len(td) : td[a].distance <= td[b].distance

-----------------------------------------------------------------------------
(* find_closest_point, gpx.rs:175-209.  Indices are the code's, from 0:     *)
(* the element with index i is td[i + 1].                                   *)

\* slice::binary_search_by with the comparator of gpx.rs:183-184.  The
\* library fixes the outcomes, not the probe order: Ok(i) for an element that
\* compares Equal (any one of them when several do), else Err(k) with k the
\* insertion index; on a slice that is not sorted the outcome is unspecified:
\* any Ok(i) of an Equal element or any Err(k), 0 <= k <= len.
BinarySearchBy(td, target) ==
    LET oks == { [ok |-> TRUE, index |-> i - 1] : i \in { j \in 1..Len(td) : td[j].distance = target } }
        k   == Cardinality({ j \in 1..Len(td) : td[j].distance < target })
    IN  IF IsSortedByDistance(td)
        THEN IF oks # {} THEN oks ELSE { [ok |-> FALSE, index |-> k] }
        ELSE oks \cup { [ok |-> FALSE, index |-> j] : j \in 0..Len(td) }

\* ChosenIndex without the comparison of the two neighbours: always the earlier one
ChosenIndex_EarlierNeighbour(td, target, index) ==
    IF index = 0 THEN 0
    ELSE IF index >= Len(td) THEN Len(td) - 1
    ELSE index - 1

\* ChosenIndex with < for <=: a tie goes to the later neighbour
ChosenIndex_StrictCompare(td, target, index) ==
    IF index = 0 THEN 0
    ELSE IF index >= Len(td) THEN Len(td) - 1
    ELSE IF (target - td[index].distance) < (td[index + 1].distance - target)
         THEN index - 1 ELSE index

\* ChosenIndex with the clamp to the end returning the start
ChosenIndex_ClampToStart(td, target, index) ==
    IF index = 0 \/ index >= Len(td) THEN 0
    ELSE IF (target - td[index].distance) <= (td[index + 1].distance - target)
         THEN index - 1 ELSE index

\* ChosenIndex without the clamp of an insertion index at the end of the slice
ChosenIndex_NoEndClamp(td, target, index) ==
    IF index = 0 THEN 0
    ELSE IF index >= Len(td) THEN index
    ELSE IF (target - td[index].distance) <= (td[index + 1].distance - target)
         THEN index - 1 ELSE index

\* gpx.rs:191-204: the index chosen after Err(index)
ChosenIndex(td, target, index) ==
    IF index = 0 THEN 0
    ELSE IF index >= Len(td) THEN Len(td) - 1
    ELSE LET prev == td[index]          \* track_data[index - 1]
             next == td[index + 1]      \* track_data[index]
         IN  IF (target - prev.distance) <= (next.distance - target) THEN index - 1 ELSE index

\* IsEmptyTrack taking a slice of one point for empty
IsEmptyTrack_OnePoint(td) == Len(td) <= 1

\* gpx.rs:178-181: the empty slice
IsEmptyTrack(td) == Len(td) = 0

\* gpx.rs:175-209, for the outcome sr of the binary search.  Indexing the
\* slice outside 0..len-1 (gpx.rs:189, 205) panics.
find_closest_point(td, target, sr) ==
    IF IsEmptyTrack(td) THEN [point |-> None, index |-> 0 - 1, panicked |-> FALSE]
    ELSE LET chosen_index == IF sr.ok THEN sr.index ELSE ChosenIndex(td, target, sr.index)
         IN  IF chosen_index \in 0..(Len(td) - 1)
             THEN [point |-> Some(td[chosen_index + 1]), index |-> chosen_index,
                   panicked |-> FALSE]
             ELSE [point |-> None, index |-> chosen_index, panicked |-> TRUE]

\* marker_chosen_index with the tie between the two neighbours going to the later
marker_chosen_index_LaterOnTie(points, position_distance, index) ==
    IF index = 0 THEN 0
    ELSE IF index >= Len(points) THEN Len(points) - 1
    ELSE LET prev == points[index]
             next == points[index + 1]
         IN  IF (position_distance - prev.distance) < (next.distance - position_distance)
             THEN index - 1 ELSE index

\* ui/frame.rs:773-779: the index draw_gradient_marker chooses after Err(index)
marker_chosen_index(points, position_distance, index) ==
    IF index = 0 THEN 0
    ELSE IF index >= Len(points) THEN Len(points) - 1
    ELSE LET prev == points[index]          \* me.gradient_points[index - 1]
             next == points[index + 1]      \* me.gradient_points[index]
         IN  IF (position_distance - prev.distance) <= (next.distance - position_distance)
             THEN index - 1 ELSE index

\* ui/frame.rs:762-782: the lookup of draw_gradient_marker in a list of
\* points, for the outcome sr of its binary search (the search of
\* gpx.rs:183-184 with the same comparator); an empty list ends the call
\* with an Err
marker_lookup(points, position_distance, sr) ==
    IF Len(points) = 0
    THEN [found |-> FALSE, point |-> None, index |-> 0 - 1]
    ELSE LET i == IF sr.ok THEN sr.index
                  ELSE marker_chosen_index(points, position_distance, sr.index)
         IN  [found |-> TRUE, point |-> Some(points[i + 1]), index |-> i]

\* every pair a call can return
ClosestPoints(td, target) ==
    { find_closest_point(td, target, sr) : sr \in BinarySearchBy(td, target) }

-----------------------------------------------------------------------------
(* The search on its own: every slice of at most MaxTrackLen points, sorted *)
(* or not, and every target from below the first to beyond the last point.  *)

\* the slices: the point with index i carries altitude 10 * i, so that two
\* points of equal distance are still two different points
SearchTracks ==
    UNION { { [i \in 1..n |-> TrackPoint(ds[i], Point(0, 0), 0, 10 * (i - 1))] :
              ds \in [1..n -> 0..MaxDistance] } : n \in 0..MaxTrackLen }

SearchTargets == (0 - 2)..(MaxDistance + 2)

BuildIdle ==
    /\ bld_source = [kind |-> "missing", points |-> <<>>]
    /\ bld_method = "Haversine"
    /\ bld_result = NotCalled

\* the sizes of the central panel, in pixels; the window opens with the first
InitialSize == [x |-> 520, y |-> 320]
WindowSizes == {InitialSize, [x |-> 720, y |-> 420]}

\* ui/ui.rs:157, frame.rs:86: the vertical exaggeration, and its default
DEFAULT_VERTICAL_SCALE == 10

ProfileIdle ==
    /\ prf_points = <<>>
    /\ prf_flat = 2
    /\ prf_extreme = 160
    /\ prf_segments = NotCalled

GeoIdle == geo_call = NotCalled

\* ui/ui.rs:139: the Refresh distance of a new GPXAssistUI
REQUESTED_DELTA == 100

\* GPXAssistUI::new, ui/ui.rs:139-163: no thread is spawned
ThreadIdle ==
    /\ is_running = FALSE
    /\ is_simulating = FALSE
    /\ requested_delta = REQUESTED_DELTA
    /\ pollers = <<>>
    /\ simulators = <<>>
    /\ last_store = NotCalled

\* GPXAssistUI::new without a file on the command line, ui/ui.rs:125-160
UiIdle ==
    /\ gpx_file = FALSE
    /\ gpx_track = <<>>
    /\ total_distance = 0
    /\ current_distance = 0
    /\ updated_distance = 0
    /\ current_position = None
    /\ current_mode = "NA"
    /\ is_first_gradient_frame = TRUE
    /\ gradient_length = 3000
    /\ gradient_offset = 100
    /\ gradient_start = 0
    /\ gradient_end = 0
    /\ gradient_points = <<>>
    /\ gradient_distance = 0
    /\ gradient_pixmap = None
    /\ gradient_texture = FALSE
    /\ vertical_scale = DEFAULT_VERTICAL_SCALE
    /\ toast = ""
    /\ open_dialog_channel = <<>>
    /\ available_size = InitialSize
    /\ gradient_call = NotCalled
    /\ gradient_marker = NotCalled

InitSearch ==
    /\ srch_track \in SearchTracks
    /\ srch_target \in SearchTargets
    /\ srch_result = NotCalled
    /\ srch_marker = NotCalled
    /\ BuildIdle
    /\ ProfileIdle
    /\ GeoIdle
    /\ ThreadIdle
    /\ UiIdle

\* the call of find_closest_point, and the lookup of draw_gradient_marker in
\* the same slice for the same distance: binary_search_by is a function of
\* the slice and the comparator, both searches get the same outcome sr
SearchCall ==
    /\ srch_result = NotCalled
    /\ \E sr \in BinarySearchBy(srch_track, srch_target) :
          /\ srch_result' = Returned(find_closest_point(srch_track, srch_target, sr))
          /\ srch_marker' = Returned(marker_lookup(srch_track, srch_target, sr))
    /\ UNCHANGED <<srch_track, srch_target, build_vars, profile_vars, geo_vars, thread_vars, ui_vars>>

NextSearch == SearchCall

SpecSearch == InitSearch /\ [][NextSearch]_vars

-----------------------------------------------------------------------------
(* Geodesy, gpx.rs:49-92 and 211-230.  Latitudes and longitudes are counted *)
(* in steps of LatStepMetres of arc; the points of a call are a few steps   *)
(* from (0, 0), or one is the antipode of the other.                        *)

\* gpx.rs:10
EARTH_RADIUS_METERS == 6371000
\* gpx.rs:12
WGS84_A == 6378137
\* gpx.rs:13-14: WGS84_F * (2 - WGS84_F) = 0.006694380, in units of 10^-9
WGS84_E_SQ == 6694380

\* 180 degrees in steps: pi * EARTH_RADIUS_METERS / LatStepMetres
HalfTurn == (314159 * (EARTH_RADIUS_METERS \div 1000)) \div (100 * LatStepMetres)

\* f64::sqrt of a whole number of square metres, rounded down to a metre
ISqrt(n) == CHOOSE r \in 0..n : r * r <= n /\ (r + 1) * (r + 1) > n

\* f64 % f64 (frem): the remainder has the sign of the dividend
f64_rem(a, b) == IF a >= 0 THEN a % b ELSE 0 - ((0 - a) % b)

\* the difference of two latitudes, as an arc in metres on the sphere
ArcMetres(lat1, lat2) == (IF lat2 >= lat1 THEN lat2 - lat1 ELSE lat1 - lat2) * LatStepMetres

\* gpx.rs:49-64.  Near the equator cos(lat) = 1 to nine places: for points a
\* few steps apart c = 2 * atan2(sqrt(a), sqrt(1 - a)) is the length of
\* (d_lat, d_lon), and R * |d_lat| when d_lon = 0.  For d_lon = 180 degrees,
\* a = (1 + cos(lat1 + lat2)) / 2 and c = pi - |lat1 + lat2|.
\* (Radii enter the quotients in kilometres, to stay inside 32-bit integers.)
haversine_distance(p1, p2) ==
    LET d_lon == p2.lon - p1.lon
    IN  IF Abs(d_lon) = HalfTurn
        THEN HalfTurn * LatStepMetres - ArcMetres(p1.lat, 0 - p2.lat)
        ELSE ((EARTH_RADIUS_METERS \div 1000)
                 * ISqrt(ArcMetres(p1.lat, p2.lat) * ArcMetres(p1.lat, p2.lat)
                         + ArcMetres(p1.lon, p2.lon) * ArcMetres(p1.lon, p2.lon)))
             \div (EARTH_RADIUS_METERS \div 1000)

\* gpx.rs:61-62, in f64: the sum a is exactly 0 for identical points and is
\* 1 up to rounding for antipodal points; a_ulps is the rounding error of the
\* sum in units in the last place (0 for (0, 0) and (0, 180); +1 for
\* (73.8867, -174.2832) and (-73.8867, 5.7168), where a = 1.0000000000000002).
\* Then 1.0 - a < 0 and (1.0 - a).sqrt() is NaN.
haversine_is_nan(p1, p2, a_ulps) ==
    /\ Abs(p2.lon - p1.lon) = HalfTurn
    /\ p1.lat + p2.lat = 0
    /\ a_ulps > 0

\* gpx.rs:66-92.  The chord between two near points of the ellipsoid, at low
\* latitude: |d_lat| times the meridional radius WGS84_A * (1 - WGS84_E_SQ)
\* and |d_lon| times WGS84_A, rounded down to a metre; between points 180
\* degrees of longitude apart, the diameter 2 * WGS84_A to a metre.
ECEF_distance(p1, p2) ==
    LET meridional_radius ==
            WGS84_A - ((WGS84_A \div 1000) * (WGS84_E_SQ \div 1000)) \div 1000
        north == ((meridional_radius \div 1000) * ArcMetres(p1.lat, p2.lat))
                    \div (EARTH_RADIUS_METERS \div 1000)
        east  == ((WGS84_A \div 1000) * ArcMetres(p1.lon, p2.lon))
                    \div (EARTH_RADIUS_METERS \div 1000)
    IN  IF Abs(p2.lon - p1.lon) = HalfTurn THEN 2 * WGS84_A
        ELSE ISqrt(north * north + east * east)

\* f64::atan of num / den in whole degrees, for 0 <= num <= den and den > 0:
\* atan(t) = 45 t + 15.6 t (1 - t) degrees to within a third of a degree
AtanDeg(num, den) == (num * (45 * den + 16 * (den - num))) \div (den * den)

\* f64::atan2(y, x).to_degrees() in whole degrees, in -180..180
Atan2Deg(y, x) ==
    LET ay == Abs(y)
        ax == Abs(x)
        from_axis == IF ay = 0 THEN 0
                     ELSE IF ay <= ax THEN AtanDeg(ay, ax)
                     ELSE 90 - AtanDeg(ax, ay)
        unsigned == IF x >= 0 THEN from_axis ELSE 180 - from_axis
    IN  IF y < 0 THEN 0 - unsigned ELSE unsigned

\* gpx.rs:221-227.  Near the equator y = sin(delta_lon) and
\* x = sin(to_lat - from_lat) are in the ratio delta_lon : d_lat.  For
\* delta_lon = 180 degrees cos(delta_lon) = -1, x = sin(from_lat + to_lat) and
\* y = sin(delta_lon) * cos(to_lat) is 1.2e-16 with the sign of delta_lon.
bearing_deg(from_latitude, from_longitude, to_latitude, to_longitude) ==
    LET delta_lon == to_longitude - from_longitude
        turn == IF delta_lon < 0 THEN 0 - 1 ELSE 1
        x == from_latitude + to_latitude
    IN  IF Abs(delta_lon) = HalfTurn
        THEN IF x = 0 THEN turn * 90 ELSE IF x > 0 THEN 0 ELSE turn * 180
        ELSE Atan2Deg(delta_lon, to_latitude - from_latitude)

\* calculate_bearing without the + 360.0
calculate_bearing_Unshifted(from_latitude, from_longitude, to_latitude, to_longitude) ==
    f64_rem(bearing_deg(from_latitude, from_longitude, to_latitude, to_longitude), 360)

\* gpx.rs:211-230
calculate_bearing(from_latitude, from_longitude, to_latitude, to_longitude) ==
    f64_rem(bearing_deg(from_latitude, from_longitude, to_latitude, to_longitude) + 360, 360)

-----------------------------------------------------------------------------
(* The track builder, gpx.rs:94-171 *)

DistanceMethods == {"Haversine", "ECEF"}     \* gpx.rs:40-45

Ok(data) == [ok |-> TRUE, data |-> data, err |-> ""]
Err(msg) == [ok |-> FALSE, data |-> <<>>, err |-> msg]

\* gpx.rs:112: point.elevation.unwrap_or(0.0)
current_altitude(elevation) == IF elevation = None THEN 0 ELSE elevation[1]

\* gpx.rs:117-121
segment_distance(method, prev_point, current_point) ==
    IF method = "Haversine" THEN haversine_distance(prev_point, current_point)
    ELSE ECEF_distance(prev_point, current_point)

\* Accumulate with = for +=
Accumulate_Assign(cumulative_distance, seg) == seg

\* gpx.rs:122: cumulative_distance += segment_distance
Accumulate(cumulative_distance, seg) == cumulative_distance + seg

\* current_heading with the two points exchanged
current_heading_Reversed(prev_point, current_point) ==
    calculate_bearing(current_point.lat, current_point.lon, prev_point.lat, prev_point.lon)

\* gpx.rs:123
current_heading(prev_point, current_point) ==
    calculate_bearing(prev_point.lat, prev_point.lon, current_point.lat, current_point.lon)

\* gpx.rs:105-133: the locals after the first n iterations of the loop
RECURSIVE TrackLoop(_, _, _)
TrackLoop(points, method, n) ==
    IF n = 0
    THEN [track_data |-> <<>>, cumulative_distance |-> 0, last_point |-> None]
    ELSE LET before == TrackLoop(points, method, n - 1)
             point == points[n]
             current_point == Point(point.lat, point.lon)
             has_prev == before.last_point # None
             prev_point == before.last_point[1]
             cumulative == IF has_prev
                           THEN Accumulate(before.cumulative_distance,
                                           segment_distance(method, prev_point, current_point))
                           ELSE before.cumulative_distance
             heading == IF has_prev THEN current_heading(prev_point, current_point) ELSE 0
         IN  [track_data |-> Append(before.track_data,
                                    TrackPoint(cumulative, current_point, heading,
                                               current_altitude(point.elevation))),
              cumulative_distance |-> cumulative,
              last_point |-> Some(current_point)]

\* gpx.rs:94-136.  A source is a path: "missing" (no such path), "not_file"
\* (a directory), "unreadable" (File::open or the GPX parser fails),
\* "no_segment" (no track, or a first track without segments) or "segment"
\* (points holds the points of the first segment of the first track).
build_track_data(source, method) ==
    IF source.kind \in {"missing", "not_file", "unreadable"} THEN Err("open or parse error")
    ELSE IF source.kind = "no_segment" THEN Err("GPX file does not contain a track segment.")
    ELSE Ok(TrackLoop(source.points, method, Len(source.points)).track_data)

\* gpx.rs:138-171
process_gpx(source, method) ==
    IF source.kind = "missing" THEN Err("metadata error")
    ELSE IF source.kind = "not_file" THEN Err("Not a file")
    ELSE LET built == build_track_data(source, method)
         IN  IF built.ok THEN Ok(built.data) ELSE Err("Error processing gpx file")

-----------------------------------------------------------------------------
(* The builder on its own: every GPX source of at most MaxWaypoints points  *)

Waypoints ==
    { [lat |-> lat, lon |-> 0, elevation |-> e] :
      lat \in 0..MaxLat, e \in {None, Some(ElevationMetres)} }

Sources ==
    { [kind |-> k, points |-> <<>>] : k \in {"missing", "not_file", "unreadable", "no_segment"} }
    \cup UNION { { [kind |-> "segment", points |-> ps] : ps \in [1..n -> Waypoints] } :
                 n \in 0..MaxWaypoints }

SearchIdle ==
    /\ srch_track = <<>>
    /\ srch_target = 0
    /\ srch_result = NotCalled
    /\ srch_marker = NotCalled

InitBuild ==
    /\ bld_source \in Sources
    /\ bld_method \in DistanceMethods
    /\ bld_result = NotCalled
    /\ SearchIdle
    /\ ProfileIdle
    /\ GeoIdle
    /\ ThreadIdle
    /\ UiIdle

\* the call process_gpx(file_path, method)
ProcessGpxCall ==
    /\ bld_result = NotCalled
    /\ bld_result' = Returned(process_gpx(bld_source, bld_method))
    /\ UNCHANGED <<search_vars, bld_source, bld_method, profile_vars, geo_vars, thread_vars, ui_vars>>

NextBuild == ProcessGpxCall

SpecBuild == InitBuild /\ [][NextBuild]_vars

-----------------------------------------------------------------------------
(* Calls of the distance formulas and of calculate_bearing on any two      *)
(* points, gpx.rs:49-92 and 211-230                                         *)

MaxLon == 1           \* largest longitude of a point of such a call, in steps

\* an f64: NaN, or a number
NaN       == [nan |-> TRUE, value |-> 0]
Number(v) == [nan |-> FALSE, value |-> v]
\* x >= v and |x| <= v on f64: false for NaN
AtLeast(x, v) == ~x.nan /\ x.value >= v
Within(x, v)  == ~x.nan /\ Abs(x.value) <= v

\* gpx.rs:62-64: NaN from the square root goes through atan2 and the product
haversine_f64(p1, p2, a_ulps) ==
    IF haversine_is_nan(p1, p2, a_ulps) THEN NaN ELSE Number(haversine_distance(p1, p2))

GeoPoints == { Point(lat, lon) : lat \in (0 - MaxLat)..MaxLat, lon \in (0 - MaxLon)..MaxLon }
Antipodes(p) == { Point(0 - p.lat, p.lon + HalfTurn), Point(0 - p.lat, p.lon - HalfTurn) }
\* the rounding error of the sum a of gpx.rs:61, in units in the last place
Roundings == {0, 1}

InitGeodesy ==
    /\ geo_call = NotCalled
    /\ SearchIdle
    /\ BuildIdle
    /\ ProfileIdle
    /\ ThreadIdle
    /\ UiIdle

\* one call of each of the three functions for the points p1 and p2
GeodesyCall(p1, p2, a_ulps) ==
    /\ geo_call = NotCalled
    /\ geo_call' = Returned([p1 |-> p1, p2 |-> p2, a_ulps |-> a_ulps,
                             haversine |-> haversine_f64(p1, p2, a_ulps),
                             ecef |-> Number(ECEF_distance(p1, p2)),
                             bearing |-> calculate_bearing(p1.lat, p1.lon, p2.lat, p2.lon)])
    /\ UNCHANGED <<search_vars, build_vars, profile_vars, thread_vars, ui_vars>>

NextGeodesy ==
    \E p1 \in GeoPoints, a_ulps \in Roundings :
       \E p2 \in GeoPoints \cup Antipodes(p1) : GeodesyCall(p1, p2, a_ulps)

SpecGeodesy == InitGeodesy /\ [][NextGeodesy]_vars

-----------------------------------------------------------------------------
(* The gradient window and its points, ui/frame.rs:534-581 *)

\* GradientWindow without the clamp of the start to 0
GradientWindow_StartNotClamped(position_distance, offset, length, total) ==
    LET start0 == position_distance - offset
        end    == Min(start0 + length, total)
        start  == IF end = total THEN Max(end - length, 0) ELSE start0
    IN  [start |-> start, end |-> end]

\* GradientWindow without the slide back of the start when the end is clamped
GradientWindow_NoSlideBack(position_distance, offset, length, total) ==
    LET start0 == Max(position_distance - offset, 0)
        end    == Min(start0 + length, total)
    IN  [start |-> start0, end |-> end]

\* frame.rs:545-550: the window [start, end] for a position
GradientWindow(position_distance, offset, length, total) ==
    LET start0 == Max(position_distance - offset, 0)
        end    == Min(start0 + length, total)
        start  == IF end = total THEN Max(end - length, 0) ELSE start0
    IN  [start |-> start, end |-> end]

\* frame.rs:566-575: the linear scan over the whole track
RECURSIVE ScanWindow(_, _, _)
ScanWindow(track, start, end) ==
    IF track = <<>> THEN <<>>
    ELSE LET rest == ScanWindow(SubSeq(track, 1, Len(track) - 1), start, end)
             point == track[Len(track)]
         IN  IF point.distance >= start /\ point.distance <= end
             THEN Append(rest, point) ELSE rest

\* frame.rs:553-576: the points of the window; i and j are the indices the two
\* calls of find_closest_point returned
SelectPoints(track, start, end, i, j) ==
    LET is_seg_loaded == i >= 0 /\ j >= i
    IN  [is_seg_loaded |-> is_seg_loaded,
         points |-> IF is_seg_loaded THEN SubSeq(track, i + 1, j + 1)
                    ELSE ScanWindow(track, start, end)]

\* frame.rs:534-757, up to the drawing: the fields of me the call assigns, and
\* its result.  (The window of the UI has a positive size: Pixmap::new
\* succeeds.)
new_gradient_image(track, total, length, offset, position, i, j) ==
    LET window   == GradientWindow(position.distance, offset, length, total)
        selected == SelectPoints(track, window.start, window.end, i, j)
        ok       == Len(selected.points) >= 2
    IN  [gradient_start  |-> window.start,
         gradient_end    |-> window.end,
         gradient_points |-> selected.points,
         is_seg_loaded   |-> selected.is_seg_loaded,
         ok              |-> ok,
         err             |-> IF ok THEN "" ELSE "Insufficient points in segment"]

\* frame.rs:594, 794: padding
PADDING == 60
\* frame.rs:586, 800: the least elevation range, in metres
MIN_ELEVATION_RANGE == 10

RECURSIVE MinAltitude(_)
MinAltitude(points) ==
    IF Len(points) = 1 THEN points[1].altitude
    ELSE Min(points[1].altitude, MinAltitude(Tail(points)))

RECURSIVE MaxAltitude(_)
MaxAltitude(points) ==
    IF Len(points) = 1 THEN points[1].altitude
    ELSE Max(points[1].altitude, MaxAltitude(Tail(points)))

\* frame.rs:584-607 and 794-807: what map_to_screen is computed from.  Both
\* functions derive it in the same way from the points, the window, the
\* vertical scale and the size they are given.
Mapping(points, start, end, scale, width, height) ==
    [min_elevation   |-> MinAltitude(points),
     elevation_range |-> Max(MaxAltitude(points) - MinAltitude(points), MIN_ELEVATION_RANGE),
     gradient_start  |-> start,
     distance_range  |-> end - start,
     vertical_scale  |-> scale,
     width  |-> width,
     height |-> height]

\* frame.rs:609-614 and 809-814, in whole pixels.  A distance_range of 0
\* leaves the quotients without a finite value: the model puts 0 for them.
map_to_screen(m, dist, elev) ==
    LET plot_width  == m.width - 2 * PADDING
        plot_height == m.height - 2 * PADDING
        effective_plot_height ==
            IF m.distance_range = 0 THEN plot_height
            ELSE Min((plot_width * m.elevation_range * m.vertical_scale) \div m.distance_range,
                     plot_height)
        elevation_offset == (plot_height - effective_plot_height) \div 2
        along == IF m.distance_range = 0 THEN 0
                 ELSE ((dist - m.gradient_start) * plot_width) \div m.distance_range
    IN  [x |-> PADDING + along,
         y |-> PADDING + elevation_offset + effective_plot_height
                  - ((elev - m.min_elevation) * effective_plot_height) \div m.elevation_range]

\* frame.rs:730-732: the cached pixmap, by the mapping its segments were
\* drawn with
Pixmap(points, start, end, scale, size) ==
    [mapping |-> Mapping(points, start, end, scale, size.x, size.y)]

\* frame.rs:759-864, for the outcome sr of the binary search: the fields of
\* me are me_pixmap, me_points, start, end and scale
draw_gradient_marker(me_pixmap, me_points, start, end, scale, width, height, position, sr) ==
    IF me_pixmap = None \/ Len(me_points) = 0
    THEN [ok |-> FALSE, err |-> "No gradient pixmap or current point available"]
    ELSE LET looked == marker_lookup(me_points, position.distance, sr)
             current_point == looked.point[1]
             m == Mapping(me_points, start, end, scale, width, height)
         IN  [ok |-> TRUE, err |-> "",
              current_point |-> current_point,
              mapping |-> m,
              at |-> map_to_screen(m, current_point.distance, current_point.altitude),
              onto |-> me_pixmap[1]]

-----------------------------------------------------------------------------
(* The colours of a profile, ui/frame.rs:617-727.  In this part a distance  *)
(* and an altitude are counted in centimetres and a percentage in tenths of *)
(* a percent: 0.1 m is 10, a slope of 0.5 % is 5 and of 16 % is 160.  The   *)
(* quotient of the slope is rounded down to a tenth of a percent.           *)

\* frame.rs:620: horizontal_dist < 0.1
SLOPE_MIN_HORIZONTAL == 10
\* frame.rs:543: extreme_gradient.abs() - 1.5
EXTREME_START_MARGIN == 15

\* calculate_gradient_percent with <= for <: a segment of exactly 0.1 m is flat
calculate_gradient_percent_AtThreshold(p1, p2) ==
    LET horizontal_dist == p2.distance - p1.distance
        vertical_dist   == p2.altitude - p1.altitude
    IN  IF horizontal_dist <= SLOPE_MIN_HORIZONTAL THEN 0
        ELSE (vertical_dist * 1000) \div horizontal_dist

\* frame.rs:617-623
calculate_gradient_percent(p1, p2) ==
    LET horizontal_dist == p2.distance - p1.distance
        vertical_dist   == p2.altitude - p1.altitude
    IN  IF horizontal_dist < SLOPE_MIN_HORIZONTAL THEN 0
        ELSE (vertical_dist * 1000) \div horizontal_dist

\* gradient_band with > for >= at the extreme threshold
gradient_band_ExtremeStrict(gradient_pct, flat_gradient, extreme_gradient) ==
    IF gradient_pct < 0 - Abs(flat_gradient) THEN "downhill"
    ELSE IF gradient_pct > Abs(flat_gradient)
         THEN IF gradient_pct > Abs(extreme_gradient) THEN "extreme" ELSE "uphill"
         ELSE "flat"

\* frame.rs:628, 640, 642, 655: the branch of gradient_color a slope takes
gradient_band(gradient_pct, flat_gradient, extreme_gradient) ==
    IF gradient_pct < 0 - Abs(flat_gradient) THEN "downhill"
    ELSE IF gradient_pct > Abs(flat_gradient)
         THEN IF gradient_pct >= Abs(extreme_gradient) THEN "extreme" ELSE "uphill"
         ELSE "flat"

\* severity without .min(1.0)
severity_Unclamped(excess, extreme_gradient) ==
    [num |-> Abs(excess), den |-> Abs(extreme_gradient)]

\* frame.rs:632, 649, 658: t = (excess / extreme_gradient.abs()).abs().min(1.0),
\* as the fraction num / den
severity(excess, extreme_gradient) ==
    [num |-> Min(Abs(excess), Abs(extreme_gradient)), den |-> Abs(extreme_gradient)]

\* frame.rs:634-635, 651-652, 660: (full * (1.0 - t)) as u8
channel(full, t) == (full * (t.den - t.num)) \div t.den

\* frame.rs:626-666: the branch taken, the severity t where the branch
\* computes one, and the arguments of Color::from_rgba8
gradient_color(gradient_pct, flat_gradient, extreme_gradient) ==
    LET band == gradient_band(gradient_pct, flat_gradient, extreme_gradient)
        flat == Abs(flat_gradient)
        extreme_start == Abs(extreme_gradient) - EXTREME_START_MARGIN
    IN  IF band = "downhill"
        THEN LET t == severity((0 - flat) - gradient_pct, extreme_gradient)
             IN  [band |-> band, t |-> Some(t),
                  rgba |-> <<255, channel(216, t), channel(173, t), 255>>]
        ELSE IF band = "extreme"
        THEN [band |-> band, t |-> None, rgba |-> <<0, 0, 0, 255>>]
        ELSE IF band = "uphill"
        THEN LET t == severity(gradient_pct - flat, extreme_gradient)
             IN  [band |-> band, t |-> Some(t),
                  rgba |-> <<channel(150, t), channel(255, t),
                             IF gradient_pct > extreme_start THEN 0 ELSE 255, 255>>]
        ELSE LET t == severity(flat - gradient_pct, extreme_gradient)
             IN  [band |-> band, t |-> Some(t), rgba |-> <<0, channel(255, t), 0, 255>>]

\* frame.rs:669-675: gradient_pct and the colour of every segment of the loop
DrawSegments(points, flat_gradient, extreme_gradient) ==
    [i \in 1..(Len(points) - 1) |->
        LET gradient_pct == calculate_gradient_percent(points[i], points[i + 1])
        IN  [gradient_pct |-> gradient_pct,
             color |-> gradient_color(gradient_pct, flat_gradient, extreme_gradient)]]

\* the steps from a point of a profile to the next: the distance (one step
\* back, none, below, at and above 0.1 m) and the climb, in centimetres
ProfileAdvances == {0 - 100, 0, 5, 10, 100, 1000}
ProfileClimbs   == {0 - 17, 0 - 16, 0 - 10, 0 - 1, 0, 3, 5, 16, 20}

\* the profiles: three points, the first at distance 0 and altitude 0
ProfilePoints ==
    { << [distance |-> 0, altitude |-> 0],
         [distance |-> h1, altitude |-> v1],
         [distance |-> h1 + h2, altitude |-> v1 + v2] >> :
      h1 \in ProfileAdvances, h2 \in ProfileAdvances,
      v1 \in ProfileClimbs, v2 \in ProfileClimbs }

\* the thresholds: 0.2 % and 16 % of ui/ui.rs:155-156, and 0.5 %
ProfileFlats    == {2, 5}
ProfileExtremes == {160}

InitProfile ==
    /\ prf_points \in ProfilePoints
    /\ prf_flat \in ProfileFlats
    /\ prf_extreme \in ProfileExtremes
    /\ prf_segments = NotCalled
    /\ SearchIdle
    /\ BuildIdle
    /\ GeoIdle
    /\ ThreadIdle
    /\ UiIdle

\* the loop of frame.rs:669-727 over the points of the profile
DrawProfile ==
    /\ prf_segments = NotCalled
    /\ prf_segments' = Returned(DrawSegments(prf_points, prf_flat, prf_extreme))
    /\ UNCHANGED <<search_vars, build_vars, prf_points, prf_flat, prf_extreme, geo_vars, thread_vars, ui_vars>>

NextProfile == DrawProfile

SpecProfile == InitProfile /\ [][NextProfile]_vars

-----------------------------------------------------------------------------
(* The gradient view of the UI.  The first state is the one in which update *)
(* has just received a track from the file dialog (frame.rs:26-93); then    *)
(* the background threads store distances, the user changes the view and    *)
(* the gradient options, and update regenerates the profile.  The frames of *)
(* the map and street views and the marker-only frame of the gradient view  *)
(* are not part of this specification.                                      *)

MaxPollers == 2       \* most update_distance_threads spawned
MaxSimulators == 2    \* most simulate_movement_threads spawned

\* ui/ui.rs:296-298: the locals of update_distance_thread when it is spawned.
\* mode is None while the thread's Arc is the cell current_mode, and Some(m)
\* once update has replaced current_mode by a new cell (frame.rs:40): the old
\* cell keeps the mode m it held.  latest tells whether the thread was the
\* one spawned last when it last evaluated its loop condition.
NewPoller(track_distance) ==
    [pc |-> "check", total_distance |-> track_distance, distance |-> 0, last_distance |-> 0,
     last_gradient_distance |-> 0, mode |-> None, latest |-> TRUE]

\* ui/ui.rs:368-374: the locals of simulate_movement_thread when it is spawned
NewSimulator(track_distance, delta) ==
    [pc |-> "loop", total_distance |-> track_distance, distance |-> 0,
     last_distance |-> 0 - delta, last_gradient_distance |-> 0, distance_delta |-> delta,
     mode |-> None, latest |-> TRUE, returned |-> None]

\* frame.rs:40: self.current_mode = Arc::new(...) leaves the threads spawned
\* before with the cell they cloned
Detached(threads, mode) ==
    [n \in DOMAIN threads |->
        IF threads[n].mode = None THEN [threads[n] EXCEPT !.mode = Some(mode)]
        ELSE threads[n]]

\* frame.rs:74: the default that replaces a length out of range, and the limit
DEFAULT_GRADIENT_LENGTH == 3000
GRADIENT_LENGTH_LIMIT   == 20000

\* the files the dialog can pick: as Sources, of routes that start at
\* latitude 0, with an elevation that rises with the latitude
DialogSources ==
    { [kind |-> k, points |-> <<>>] : k \in {"unreadable", "no_segment"} }
    \cup UNION { { [kind |-> "segment",
                    points |-> [n \in 1..len |->
                                  [lat |-> lats[n], lon |-> 0,
                                   elevation |-> Some(lats[n] * ElevationMetres)]]] :
                   lats \in { l \in [1..len -> 0..MaxLat] : len > 0 => l[1] = 0 } } :
                 len \in 0..MaxWaypoints }

\* gradient_length and gradient_offset as the settings file holds them
SettingsLengths == {0, 200}
SettingsOffsets == {0 - 100, 100}

\* the values set with the DragValues of gradient_options, frame.rs:893-919
OptionLengths == {100}
OptionOffsets == {2000}

\* the method of the dialog's call of process_gpx, ui.rs:1139
DialogMethods == {"ECEF"}

\* the distances a background thread stores, ui/ui.rs:322,338,383,400,420
StoredDistances == { n * 125 : n \in 0..MaxStored }

\* frame.rs:1105-1118: the track data open_file_dialog sends to update
DialogTrackData(source, method) ==
    LET processed == process_gpx(source, method)
    IN  IF processed.ok THEN processed.data ELSE <<>>

\* frame.rs:73-74
ValidGradientLength(length) ==
    IF length <= 0 \/ length >= GRADIENT_LENGTH_LIMIT THEN DEFAULT_GRADIENT_LENGTH ELSE length

\* frame.rs:26-93, on the state UiIdle
Init ==
    /\ SearchIdle
    /\ BuildIdle
    /\ ProfileIdle
    /\ GeoIdle
    /\ ThreadIdle
    /\ \E source \in DialogSources, method \in DialogMethods,
          settings_length \in SettingsLengths, settings_offset \in SettingsOffsets :
          LET trackdata == DialogTrackData(source, method)
          IN  /\ trackdata # <<>>
              /\ gpx_file = TRUE
              /\ total_distance = trackdata[Len(trackdata)].distance
              /\ current_distance = 0
              /\ updated_distance = 0
              /\ current_position = Some(trackdata[1])
              /\ gpx_track = trackdata
              /\ current_mode = "Map"
              /\ is_first_gradient_frame = FALSE
              /\ gradient_length = ValidGradientLength(settings_length)
              /\ gradient_offset = settings_offset        \* frame.rs:76, before the range check
    /\ gradient_start = 0
    /\ gradient_end = 0
    /\ gradient_points = <<>>
    /\ gradient_distance = 0
    /\ gradient_pixmap = None
    /\ gradient_texture = FALSE
    /\ vertical_scale = DEFAULT_VERTICAL_SCALE
    /\ toast = ""
    /\ open_dialog_channel = <<>>
    /\ available_size = InitialSize
    /\ gradient_call = NotCalled
    /\ gradient_marker = NotCalled

\* ui/ui.rs:322: a background thread stores a distance
DistanceStored(distance) ==
    /\ updated_distance' = distance
    /\ UNCHANGED <<search_vars, build_vars, profile_vars, geo_vars, thread_vars, view_vars, gpx_file, gpx_track, total_distance, current_distance,
                   current_position, current_mode, is_first_gradient_frame, gradient_length,
                   gradient_offset, gradient_start, gradient_end, gradient_points,
                   gradient_distance, gradient_pixmap, gradient_texture, gradient_call,
                   gradient_marker>>

\* frame.rs:148-183: the user selects a view
SelectMode(mode) ==
    /\ gpx_file /\ total_distance > 0
    /\ mode # current_mode
    /\ current_mode' = mode
    /\ is_first_gradient_frame' = IF mode = "Gradient" THEN TRUE
                                  ELSE IF current_mode = "Gradient" THEN FALSE
                                  ELSE is_first_gradient_frame
    /\ UNCHANGED <<search_vars, build_vars, profile_vars, geo_vars, thread_vars, view_vars, gpx_file, gpx_track, total_distance, current_distance,
                   updated_distance, current_position, gradient_length, gradient_offset,
                   gradient_start, gradient_end, gradient_points,
                   gradient_distance, gradient_pixmap, gradient_texture, gradient_call,
                   gradient_marker>>

\* frame.rs:257-275: a view is drawn (the broadcast file is there, or a
\* simulation runs)
ViewShown == current_mode # "NA" /\ gpx_file /\ total_distance # 0

\* frame.rs:893-904: the Length option of the gradient view
GradientOptionsLength(length) ==
    /\ ViewShown /\ current_mode = "Gradient"
    /\ length # gradient_length
    /\ gradient_length' = length
    /\ is_first_gradient_frame' = TRUE
    /\ UNCHANGED <<search_vars, build_vars, profile_vars, geo_vars, thread_vars, view_vars, gpx_file, gpx_track, total_distance, current_distance,
                   updated_distance, current_position, current_mode, gradient_offset,
                   gradient_start, gradient_end, gradient_points,
                   gradient_distance, gradient_pixmap, gradient_texture, gradient_call,
                   gradient_marker>>

\* frame.rs:906-919: the Offset option of the gradient view
GradientOptionsOffset(offset) ==
    /\ ViewShown /\ current_mode = "Gradient"
    /\ offset # gradient_offset
    /\ gradient_offset' = offset
    /\ is_first_gradient_frame' = TRUE
    /\ UNCHANGED <<search_vars, build_vars, profile_vars, geo_vars, thread_vars, view_vars, gpx_file, gpx_track, total_distance, current_distance,
                   updated_distance, current_position, current_mode, gradient_length,
                   gradient_start, gradient_end, gradient_points,
                   gradient_distance, gradient_pixmap, gradient_texture, gradient_call,
                   gradient_marker>>

\* frame.rs:330-376 with 534-757: a frame of the gradient view that
\* regenerates the profile.  render_current_gradient (frame.rs:367-370) shows
\* the options inside this frame: dragged_scale is None, or the value the user
\* drags the Vertical Scale to (frame.rs:926-934) while the frame is drawn.
GradientRegenFrame(dragged_scale) ==
    /\ ViewShown /\ current_mode = "Gradient"
    /\ (updated_distance - current_distance) >= requested_delta \/ is_first_gradient_frame
    /\ \E found \in ClosestPoints(gpx_track, updated_distance) :
          /\ found.point # None
          /\ LET position == found.point[1]
                 window   == GradientWindow(position.distance, gradient_offset,
                                            gradient_length, total_distance)
             IN  \E at_start \in ClosestPoints(gpx_track, window.start),
                    at_end \in ClosestPoints(gpx_track, window.end) :
                    LET image == new_gradient_image(gpx_track, total_distance, gradient_length,
                                                    gradient_offset, position,
                                                    at_start.index, at_end.index)
                        pixmap == IF image.ok
                                  THEN Some(Pixmap(image.gradient_points, image.gradient_start,
                                                   image.gradient_end, vertical_scale,
                                                   available_size))
                                  ELSE None
                        \* frame.rs:734-754: the marker of the returned image
                        marked == image.ok /\ current_position # None
                                     /\ current_position[1].distance >= 0
                    IN  /\ dragged_scale # None => (gradient_texture \/ image.ok)
                        /\ gradient_start' = image.gradient_start
                        /\ gradient_end' = image.gradient_end
                        /\ gradient_points' = image.gradient_points
                        /\ gradient_pixmap' = pixmap
                        /\ gradient_texture' = (gradient_texture \/ image.ok)
                        /\ gradient_call' =
                              Returned([position |-> position,
                                        total_distance |-> total_distance,
                                        gradient_length |-> gradient_length,
                                        gradient_offset |-> gradient_offset,
                                        i |-> at_start.index,
                                        j |-> at_end.index,
                                        is_seg_loaded |-> image.is_seg_loaded,
                                        ok |-> image.ok,
                                        err |-> image.err])
                        /\ IF marked
                           THEN \E sr \in BinarySearchBy(image.gradient_points,
                                                         current_position[1].distance) :
                                   gradient_marker' =
                                      Returned(draw_gradient_marker(
                                                  pixmap, image.gradient_points,
                                                  image.gradient_start, image.gradient_end,
                                                  vertical_scale, available_size.x,
                                                  available_size.y, current_position[1], sr)
                                               @@ [caller |-> "new_gradient_image"])
                           ELSE gradient_marker' = NotCalled
                        /\ current_position' = Some(position)
    /\ current_distance' = updated_distance
    /\ gradient_distance' = updated_distance
    /\ vertical_scale' = IF dragged_scale = None THEN vertical_scale ELSE dragged_scale[1]
    /\ is_first_gradient_frame' = FALSE          \* frame.rs:375, after the options
    /\ UNCHANGED <<search_vars, build_vars, profile_vars, geo_vars, thread_vars, toast, open_dialog_channel,
                   available_size, gpx_file, gpx_track, total_distance, updated_distance,
                   current_mode, gradient_length, gradient_offset>>

Next ==
    \/ \E distance \in StoredDistances : DistanceStored(distance)
    \/ \E mode \in {"Map", "Gradient"} : SelectMode(mode)
    \/ \E length \in OptionLengths : GradientOptionsLength(length)
    \/ \E offset \in OptionOffsets : GradientOptionsOffset(offset)
    \/ GradientRegenFrame(None)

Spec == Init /\ [][Next]_vars

-----------------------------------------------------------------------------
(* The gradient view with its marker.  The first state is the constructed   *)
(* UI; the user opens files with the dialog and resizes the window, update  *)
(* takes the tracks from the channel, the background threads store          *)
(* distances a few tens of metres apart, and the frames of the gradient     *)
(* view regenerate the profile or move the marker on the cached one.        *)

\* ui/ui.rs:154: gradient_delta (the model keeps its initial value)
GRADIENT_DELTA == 10

\* frame.rs:86: the range of the vertical exaggeration
MIN_VERTICAL_SCALE == 1
MAX_VERTICAL_SCALE == 50

\* most messages in the channel of the file dialog
MaxInFlight == 1

\* the files picked: a climb of three points, a route of three points with
\* two fixes at the same place, and a file that cannot be read
ViewSources ==
    { [kind |-> "unreadable", points |-> <<>>] }
    \cup { [kind |-> "segment",
            points |-> [n \in 1..3 |-> [lat |-> lats[n], lon |-> 0,
                                       elevation |-> Some(lats[n] * ElevationMetres)]]] :
           lats \in { <<0, 1, 2>>, <<0, 2, 2>> } }

\* the settings file at the time a track is received
ViewSettings == { [gradient_length |-> 200, gradient_offset |-> 100, vertical_exaggeration |-> 10] }

\* the distances a background thread stores, in steps of 50 m
MaxViewSteps == 1
ViewDistances == { n * 50 : n \in 0..MaxViewSteps }

\* the value the Vertical Scale option is dragged to, frame.rs:926-931
DraggedScales == {20}

\* frame.rs:85-86
ValidVerticalScale(scale) ==
    IF scale < MIN_VERTICAL_SCALE \/ scale > MAX_VERTICAL_SCALE
    THEN DEFAULT_VERTICAL_SCALE ELSE scale

InitView ==
    /\ SearchIdle
    /\ BuildIdle
    /\ ProfileIdle
    /\ GeoIdle
    /\ ThreadIdle
    /\ UiIdle

\* frame.rs:1079-1123: the user picks a file; its track, or an empty one when
\* process_gpx fails, is sent to update
OpenFileDialog(source) ==
    /\ Len(open_dialog_channel) < MaxInFlight
    /\ \E method \in DialogMethods :
          open_dialog_channel' = Append(open_dialog_channel, DialogTrackData(source, method))
    /\ UNCHANGED <<search_vars, build_vars, profile_vars, geo_vars, thread_vars, gpx_file, gpx_track, total_distance,
                   current_distance, updated_distance, current_position, current_mode,
                   is_first_gradient_frame, gradient_length, gradient_offset, gradient_start,
                   gradient_end, gradient_points, gradient_distance, gradient_pixmap,
                   gradient_texture, vertical_scale, toast, available_size, gradient_call,
                   gradient_marker>>

\* gpx_track extended by the track received
ReceivedTrack_Extended(old_track, trackdata) == old_track \o trackdata

\* frame.rs:39: self.gpx_track = Arc::new(trackdata)
ReceivedTrack(old_track, trackdata) == trackdata

\* frame.rs:26-88, 94-97: update takes a message from the channel of the
\* dialog; what it does to the fields of the view
ReceiveTrack(settings) ==
    /\ open_dialog_channel # <<>>
    /\ open_dialog_channel' = Tail(open_dialog_channel)
    /\ LET trackdata == Head(open_dialog_channel)
       IN  IF trackdata # <<>>
           THEN /\ gpx_file' = TRUE
                /\ total_distance' = trackdata[Len(trackdata)].distance
                /\ current_distance' = 0
                /\ updated_distance' = 0
                /\ current_position' = Some(trackdata[1])
                /\ gpx_track' = ReceivedTrack(gpx_track, trackdata)
                /\ current_mode' = "Map"
                /\ is_first_gradient_frame' = FALSE
                /\ gradient_length' = ValidGradientLength(settings.gradient_length)
                /\ gradient_offset' = settings.gradient_offset
                /\ vertical_scale' = ValidVerticalScale(settings.vertical_exaggeration)
                /\ UNCHANGED toast
           ELSE /\ toast' = "The selected GPX file contains no track points or could not be processed."
                /\ UNCHANGED <<gpx_file, total_distance, current_distance, updated_distance,
                               current_position, gpx_track, current_mode,
                               is_first_gradient_frame, gradient_length, gradient_offset,
                               vertical_scale>>
    /\ UNCHANGED <<search_vars, build_vars, profile_vars, geo_vars, gradient_start, gradient_end,
                   gradient_points, gradient_distance, gradient_pixmap, gradient_texture,
                   available_size, gradient_call, gradient_marker>>

\* frame.rs:26-98 as the view sees it: in this specification the background
\* threads are the environment, which stores distances (DistanceStored)
TrackReceivedView(settings) ==
    /\ ReceiveTrack(settings)
    /\ UNCHANGED thread_vars

\* the user resizes the window: ui.available_size() (frame.rs:338, 383)
\* gives another size from the next frame on
Resize(size) ==
    /\ size # available_size
    /\ available_size' = size
    /\ UNCHANGED <<search_vars, build_vars, profile_vars, geo_vars, thread_vars, gpx_file, gpx_track, total_distance,
                   current_distance, updated_distance, current_position, current_mode,
                   is_first_gradient_frame, gradient_length, gradient_offset, gradient_start,
                   gradient_end, gradient_points, gradient_distance, gradient_pixmap,
                   gradient_texture, vertical_scale, toast, open_dialog_channel, gradient_call,
                   gradient_marker>>

\* frame.rs:332, 377-413: a frame of the gradient view that moves the marker
\* on the cached profile
GradientMarkerFrame ==
    /\ ViewShown /\ current_mode = "Gradient"
    /\ ~((updated_distance - current_distance) >= requested_delta \/ is_first_gradient_frame)
    /\ GRADIENT_DELTA < requested_delta
    /\ (updated_distance - gradient_distance) >= GRADIENT_DELTA
    /\ \E found \in ClosestPoints(gpx_track, updated_distance) :
          /\ found.point # None
          /\ LET position == found.point[1]
             IN  \E sr \in BinarySearchBy(gradient_points, position.distance) :
                    LET drawn == draw_gradient_marker(gradient_pixmap, gradient_points,
                                                      gradient_start, gradient_end,
                                                      vertical_scale, available_size.x,
                                                      available_size.y, position, sr)
                    IN  IF position.distance > 0 /\ drawn.ok
                        THEN /\ gradient_texture' = TRUE
                             /\ current_position' = Some(position)
                             /\ gradient_distance' = updated_distance
                             /\ gradient_marker' = Returned(drawn @@ [caller |-> "update"])
                        ELSE UNCHANGED <<gradient_texture, current_position, gradient_distance,
                                         gradient_marker>>
    /\ UNCHANGED <<search_vars, build_vars, profile_vars, geo_vars, thread_vars, view_vars, gpx_file, gpx_track,
                   total_distance, current_distance, updated_distance, current_mode,
                   is_first_gradient_frame, gradient_length, gradient_offset, gradient_start,
                   gradient_end, gradient_points, gradient_pixmap, gradient_call>>

NextView ==
    \/ \E source \in ViewSources : OpenFileDialog(source)
    \/ \E settings \in ViewSettings : TrackReceivedView(settings)
    \/ \E size \in WindowSizes : Resize(size)
    \/ \E distance \in ViewDistances : DistanceStored(distance)
    \/ \E mode \in {"Map", "Gradient"} : SelectMode(mode)
    \/ \E dragged_scale \in {None} \cup { Some(scale) : scale \in DraggedScales } :
          GradientRegenFrame(dragged_scale)
    \/ GradientMarkerFrame

SpecView == InitView /\ [][NextView]_vars

-----------------------------------------------------------------------------
(* The background threads, ui/ui.rs:291-431, with the steps of update that *)
(* start and stop them.  A step of a thread is what it does between two    *)
(* accesses of a flag it shares with update; a store into updated_distance *)
(* and the store into rider_data that follows it are one step; a click is  *)
(* handled in one step of update.                                           *)

\* a route of three points, and a file that cannot be read
ThreadRoute ==
    [kind |-> "segment",
     points |-> [n \in 1..3 |-> [lat |-> n - 1, lon |-> 0, elevation |-> None]]]
ThreadSources == { [kind |-> "unreadable", points |-> <<>>], ThreadRoute }

\* the distances read_rider_data finds in the broadcast file, in any order
Samples == {60, 90}
\* the distance it finds while a simulation is started and stopped
LiveSamples == {150}
\* the value the Refresh option is dragged to, frame.rs:133-143
RefreshDistances == {50}
\* the metres a simulation covers between two readings of its clock: 8 s at
\* 12.5 m/s (ui/ui.rs:374, 415-417; the sleep lasts a second or more)
SimAdvances == {100}

\* the mode a thread loads from the cell it cloned
Mode(thread) == IF thread.mode = None THEN current_mode ELSE thread.mode[1]

\* is_simulating cleared whatever was received
is_simulating_received_Unguarded(trackdata, simulating) == FALSE

\* frame.rs:28, 42: self.is_simulating.store(false) inside if !tt.0.is_empty()
is_simulating_received(trackdata, simulating) ==
    IF trackdata # <<>> THEN FALSE ELSE simulating

\* frame.rs:26-98: update takes a message from the channel of the dialog and,
\* for a track with points, spawns its poller.  (No more than MaxPollers
\* tracks are received.)
TrackReceived(settings) ==
    /\ ReceiveTrack(settings)
    /\ is_simulating' = is_simulating_received(Head(open_dialog_channel), is_simulating)
    /\ LET trackdata == Head(open_dialog_channel)
       IN  IF trackdata # <<>>
           THEN /\ Len(pollers) < MaxPollers
                /\ is_running' = TRUE                                   \* frame.rs:52
                /\ pollers' = Append(Detached(pollers, current_mode),   \* frame.rs:89-92
                                     NewPoller(trackdata[Len(trackdata)].distance))
                /\ simulators' = Detached(simulators, current_mode)
           ELSE UNCHANGED <<is_running, pollers, simulators>>
    /\ UNCHANGED <<requested_delta, last_store>>

\* the fields of the view that no thread and no button of the toolbar changes
frame_vars == <<gpx_file, gpx_track, total_distance, current_distance, current_position,
                is_first_gradient_frame, gradient_length, gradient_offset, gradient_start,
                gradient_end, gradient_points, gradient_distance, gradient_pixmap,
                gradient_texture, gradient_call, gradient_marker, view_vars>>

\* frame.rs:127-145: the Refresh option
SetRequestedDelta(dist) ==
    /\ gpx_file /\ total_distance > 0
    /\ dist # requested_delta
    /\ requested_delta' = dist
    /\ UNCHANGED <<search_vars, build_vars, profile_vars, geo_vars, frame_vars, current_mode,
                   updated_distance, is_running, is_simulating, pollers, simulators,
                   last_store>>

\* frame.rs:127, 218-246: the Start Simulation button.
\* (No more than MaxSimulators simulations are started.)
StartSimulation ==
    /\ gpx_file /\ total_distance > 0
    /\ ~is_simulating
    /\ Len(simulators) < MaxSimulators
    /\ is_simulating' = TRUE
    /\ is_running' = FALSE
    /\ simulators' = Append(simulators, NewSimulator(total_distance, requested_delta))
    /\ UNCHANGED <<search_vars, build_vars, profile_vars, geo_vars, frame_vars, current_mode,
                   updated_distance, requested_delta, pollers, last_store>>

\* frame.rs:127, 204-217: the Stop Simulation button
StopSimulation ==
    /\ gpx_file /\ total_distance > 0
    /\ is_simulating /\ ~is_running
    /\ is_simulating' = FALSE
    /\ is_running' = TRUE
    /\ UNCHANGED <<search_vars, build_vars, profile_vars, geo_vars, frame_vars, current_mode,
                   updated_distance, requested_delta, pollers, simulators, last_store>>

\* what last_store records of a store into updated_distance: the kind of the
\* thread, whether it was the thread spawned last of its kind when it entered
\* this round of its loop, whether a simulation is active, and whether the
\* distance is below the one the thread stored before
Stored(kind, latest, distance, before) ==
    Returned([kind |-> kind,
              latest |-> latest,
              during_simulation |-> (is_simulating /\ ~is_running),
              went_back |-> (before # None /\ distance < before[1])])

\* ui/ui.rs:299-305: the loop condition and the load of is_running
PollerCheck(n) ==
    /\ pollers[n].pc = "check"
    /\ pollers' = [pollers EXCEPT ![n] =
                      [@ EXCEPT !.latest = (n = Len(pollers)),
                                !.pc = IF ~(pollers[n].distance < pollers[n].total_distance) THEN "done"
                                       ELSE IF ~is_running THEN "check"  \* sleep, continue
                                       ELSE "read"]]
    /\ UNCHANGED <<search_vars, build_vars, profile_vars, geo_vars, frame_vars, current_mode,
                   updated_distance, is_running, is_simulating, requested_delta, simulators,
                   last_store>>

\* ui/ui.rs:306-355: read_rider_data and the two stores; sample is None when
\* the broadcast file cannot be read.  Both stores set last_gradient_distance
\* to the distance stored: while it is 0 the thread has stored nothing.
PollerRead(n, sample) ==
    /\ pollers[n].pc = "read"
    /\ LET me == pollers[n]
           distance == IF sample = None THEN me.distance ELSE sample[1]
           refresh == /\ sample # None
                      /\ distance > me.last_distance
                      /\ (distance - me.last_distance) >= requested_delta
           gradient == /\ sample # None
                       /\ distance > me.last_distance
                       /\ ~refresh
                       /\ Mode(me) = "Gradient"
                       /\ (distance - me.last_gradient_distance) >= GRADIENT_DELTA
           before == IF me.last_gradient_distance > 0 THEN Some(me.last_gradient_distance)
                     ELSE None
       IN  /\ pollers' = [pollers EXCEPT ![n] =
                  [me EXCEPT !.pc = "check",
                             !.distance = distance,
                             !.last_distance = IF refresh THEN distance ELSE @,
                             !.last_gradient_distance = IF refresh \/ gradient THEN distance ELSE @]]
           /\ IF refresh \/ gradient
              THEN /\ updated_distance' = distance
                   /\ last_store' = Stored("poller", me.latest, distance, before)
              ELSE UNCHANGED <<updated_distance, last_store>>
    /\ UNCHANGED <<search_vars, build_vars, profile_vars, geo_vars, frame_vars, current_mode,
                   is_running, is_simulating, requested_delta, simulators>>

\* ui/ui.rs:375-380: the loop condition and the load of is_running
SimulatorCheck(n) ==
    /\ simulators[n].pc = "loop"
    /\ simulators' = [simulators EXCEPT ![n] =
                         [@ EXCEPT !.latest = (n = Len(simulators)),
                                   !.pc = IF ~(simulators[n].distance < simulators[n].total_distance)
                                          THEN "exit"
                                          ELSE IF is_running THEN "exit"
                                          ELSE "publish"]]
    /\ UNCHANGED <<search_vars, build_vars, profile_vars, geo_vars, frame_vars, current_mode,
                   updated_distance, is_running, is_simulating, requested_delta, pollers,
                   last_store>>

\* ui/ui.rs:381-418: the stores of the distance reached, then the clock and
\* the store of the new distance
SimulatorPublish(n, advance) ==
    /\ simulators[n].pc = "publish"
    /\ LET me == simulators[n]
           refresh == (me.distance - me.last_distance) >= me.distance_delta
           gradient == /\ ~refresh
                       /\ Mode(me) = "Gradient"
                       /\ (me.distance - me.last_gradient_distance) >= GRADIENT_DELTA
           distance == me.distance + advance
       IN  /\ simulators' = [simulators EXCEPT ![n] =
                  [me EXCEPT !.pc = "check_stop",
                             !.distance = distance,
                             !.last_distance = IF refresh THEN me.distance ELSE @,
                             !.last_gradient_distance = IF gradient THEN me.distance ELSE @]]
           /\ updated_distance' = distance
           /\ last_store' = Stored("simulator", me.latest, distance, None)
    /\ UNCHANGED <<search_vars, build_vars, profile_vars, geo_vars, frame_vars, current_mode,
                   is_running, is_simulating, requested_delta, pollers>>

\* ui/ui.rs:420-425: the load of is_sim_running, the sleep and the load of
\* requested_delta
SimulatorCheckStop(n) ==
    /\ simulators[n].pc = "check_stop"
    /\ simulators' = [simulators EXCEPT ![n] =
                         IF ~is_simulating THEN [@ EXCEPT !.pc = "exit"]
                         ELSE [@ EXCEPT !.pc = "loop", !.distance_delta = requested_delta]]
    /\ UNCHANGED <<search_vars, build_vars, profile_vars, geo_vars, frame_vars, current_mode,
                   updated_distance, is_running, is_simulating, requested_delta, pollers,
                   last_store>>

\* ui/ui.rs:427: is_sim_running.store(false)
SimulatorClear(n) ==
    /\ simulators[n].pc = "exit"
    /\ is_simulating' = FALSE
    /\ simulators' = [simulators EXCEPT ![n].pc = "exit_running"]
    /\ UNCHANGED <<search_vars, build_vars, profile_vars, geo_vars, frame_vars, current_mode,
                   updated_distance, is_running, requested_delta, pollers, last_store>>

\* ui/ui.rs:428-429: is_running.store(true), and the thread returns; returned
\* keeps the two flags as they are at that moment
SimulatorReturn(n) ==
    /\ simulators[n].pc = "exit_running"
    /\ is_running' = TRUE
    /\ simulators' = [simulators EXCEPT ![n] =
                         [@ EXCEPT !.pc = "done",
                                   !.returned = Some([is_simulating |-> is_simulating,
                                                      is_running |-> TRUE])]]
    /\ UNCHANGED <<search_vars, build_vars, profile_vars, geo_vars, frame_vars, current_mode,
                   updated_distance, is_simulating, requested_delta, pollers, last_store>>

\* The toolbar and the dialog: what update does with the flags and which
\* threads it spawns; the threads are spawned and do not run.
NextLoad ==
    \/ \E source \in ThreadSources : OpenFileDialog(source)
    \/ \E settings \in ViewSettings : TrackReceived(settings)
    \/ \E mode \in {"Map", "Gradient"} : SelectMode(mode)
    \/ StartSimulation
    \/ StopSimulation

SpecLoad == InitView /\ [][NextLoad]_vars

\* The pollers: tracks are received, the user changes the view and the
\* Refresh distance, and every poller spawned runs.
NextPollers ==
    \/ OpenFileDialog(ThreadRoute)
    \/ \E settings \in ViewSettings : TrackReceived(settings)
    \/ \E mode \in {"Map", "Gradient"} : SelectMode(mode)
    \/ \E dist \in RefreshDistances \cup {REQUESTED_DELTA} : SetRequestedDelta(dist)
    \/ \E n \in 1..Len(pollers) : PollerCheck(n)
    \/ \E n \in 1..Len(pollers), sample \in {None} \cup { Some(d) : d \in Samples } :
          PollerRead(n, sample)

SpecPollers == InitView /\ [][NextPollers]_vars

\* The simulation: one track is received, its poller runs, and the user
\* starts and stops simulations, which run.
NextSimulation ==
    \/ ~gpx_file /\ OpenFileDialog(ThreadRoute)
    \/ \E settings \in ViewSettings : TrackReceived(settings)
    \/ StartSimulation
    \/ StopSimulation
    \/ \E n \in 1..Len(pollers) : PollerCheck(n)
    \/ \E n \in 1..Len(pollers), sample \in {None} \cup { Some(d) : d \in LiveSamples } :
          PollerRead(n, sample)
    \/ \E n \in 1..Len(simulators) : SimulatorCheck(n)
    \/ \E n \in 1..Len(simulators), advance \in SimAdvances : SimulatorPublish(n, advance)
    \/ \E n \in 1..Len(simulators) : SimulatorCheckStop(n)
    \/ \E n \in 1..Len(simulators) : SimulatorClear(n)
    \/ \E n \in 1..Len(simulators) : SimulatorReturn(n)

SpecSimulation == InitView /\ [][NextSimulation]_vars

-----------------------------------------------------------------------------
(* Properties of find_closest_point, under SpecSearch *)

SearchReturned == srch_result # NotCalled
SearchSorted   == IsSortedByDistance(srch_track)
\* the insertion index of the target: the number of points before it
InsertionIndex == Cardinality({ j \in 1..Len(srch_track) : srch_track[j].distance < srch_target })
NoExactMatch   == \A j \in 1..Len(srch_track) : srch_track[j].distance # srch_target

\* C1: on a non-empty slice sorted by distance (duplicates allowed) and for
\* every target, the returned index i minimises |track[i].distance - target|
\* over all indices.
C1_ClosestIsMinimal ==
    (SearchReturned /\ Len(srch_track) > 0 /\ SearchSorted) =>
        LET i == srch_result[1].index
        IN  /\ i \in 0..(Len(srch_track) - 1)
            /\ \A j \in 1..Len(srch_track) :
                  Abs(srch_track[i + 1].distance - srch_target)
                     <= Abs(srch_track[j].distance - srch_target)

\* a sorted slice with a duplicate distance, a target strictly between two
\* points and nearer to the later one, and the call has returned
C1_Witness ==
    /\ SearchReturned /\ SearchSorted /\ NoExactMatch
    /\ Len(srch_track) >= 3
    /\ \E a \in 1..(Len(srch_track) - 1) : srch_track[a].distance = srch_track[a + 1].distance
    /\ InsertionIndex \in 1..(Len(srch_track) - 1)
    /\ srch_result[1].index = InsertionIndex

\* C2: the call returns (None, -1) exactly when the slice is empty; on every
\* non-empty slice, sorted or not, it returns (Some(p), i) with
\* 0 <= i < length and p = track[i].
C2_NoneIffEmpty ==
    SearchReturned =>
        LET r == srch_result[1]
        IN  /\ (r.point = None /\ r.index = 0 - 1) <=> (Len(srch_track) = 0)
            /\ Len(srch_track) > 0 =>
                  /\ r.index \in 0..(Len(srch_track) - 1)
                  /\ r.point = Some(srch_track[r.index + 1])

\* a slice of one point, searched for a target that is not its distance
C2_Witness ==
    /\ SearchReturned
    /\ Len(srch_track) = 1
    /\ NoExactMatch
    /\ srch_result[1].point = Some(srch_track[1])

\* C3: with no exact match and the target strictly between two adjacent
\* points at insertion index k, 0 < k < length, the result is k - 1 if
\* target - track[k-1].distance <= track[k].distance - target, else k; an
\* exact tie returns k - 1.
C3_NeighbourTieBreak ==
    (SearchReturned /\ SearchSorted /\ NoExactMatch
        /\ InsertionIndex > 0 /\ InsertionIndex < Len(srch_track)) =>
        LET k == InsertionIndex
        IN  srch_result[1].index =
               IF (srch_target - srch_track[k].distance) <= (srch_track[k + 1].distance - srch_target)
               THEN k - 1 ELSE k

\* an exact tie between the two neighbours, answered with the earlier one
C3_Witness ==
    /\ SearchReturned /\ SearchSorted /\ NoExactMatch
    /\ InsertionIndex > 0 /\ InsertionIndex < Len(srch_track)
    /\ (srch_target - srch_track[InsertionIndex].distance)
          = (srch_track[InsertionIndex + 1].distance - srch_target)
    /\ srch_result[1].index = InsertionIndex - 1

\* C4: on a non-empty sorted slice, a target below the first distance
\* returns index 0 and a target above the last distance returns the last
\* index.
C4_ClampToEnds ==
    (SearchReturned /\ SearchSorted /\ Len(srch_track) > 0) =>
        /\ srch_target < srch_track[1].distance => srch_result[1].index = 0
        /\ srch_target > srch_track[Len(srch_track)].distance =>
              srch_result[1].index = Len(srch_track) - 1

\* a target beyond the end of a slice of several points, clamped to the last
C4_Witness ==
    /\ SearchReturned /\ SearchSorted
    /\ Len(srch_track) >= 2
    /\ srch_target > srch_track[Len(srch_track)].distance
    /\ srch_result[1].index = Len(srch_track) - 1

-----------------------------------------------------------------------------
(* Properties of the track builder, under SpecBuild *)

BuildReturned == bld_result # NotCalled
BuildOk       == BuildReturned /\ bld_result[1].ok

\* C5: for a source of n >= 1 waypoints and either distance method, the
\* distances of the built track never decrease along the track.
C5_DistanceNonDecreasing ==
    (BuildOk /\ Len(bld_source.points) >= 1) =>
        LET track == bld_result[1].data
        IN  \A i \in 1..(Len(track) - 1) : track[i].distance <= track[i + 1].distance

\* a route that goes north and then a shorter way back south: the last
\* segment is shorter than the one before and the distance still grows
C5_Witness ==
    /\ BuildOk
    /\ Len(bld_source.points) = 3
    /\ bld_source.points[2].lat - bld_source.points[1].lat = 2
    /\ bld_source.points[2].lat - bld_source.points[3].lat = 1
    /\ bld_result[1].data[3].distance > bld_result[1].data[2].distance

\* C6: the builder emits one TrackPoint per waypoint, in order: the first
\* with distance 0 and heading 0, every later one with the distance of its
\* predecessor plus the segment distance and with the bearing from the
\* previous waypoint; each keeps its waypoint's lat/lon, and its altitude is
\* the elevation, or 0 when there is none.
C6_OnePointPerWaypoint ==
    (BuildOk /\ bld_source.kind = "segment") =>
        LET track == bld_result[1].data
            wps   == bld_source.points
        IN  /\ Len(track) = Len(wps)
            /\ \A i \in 1..Len(wps) :
                  /\ track[i].point = Point(wps[i].lat, wps[i].lon)
                  /\ track[i].altitude =
                        (IF wps[i].elevation = None THEN 0 ELSE wps[i].elevation[1])
                  /\ i = 1 => (track[i].distance = 0 /\ track[i].heading = 0)
                  /\ i > 1 =>
                        /\ track[i].distance = track[i - 1].distance
                              + segment_distance(bld_method, Point(wps[i - 1].lat, wps[i - 1].lon),
                                                 Point(wps[i].lat, wps[i].lon))
                        /\ track[i].heading =
                              calculate_bearing(wps[i - 1].lat, wps[i - 1].lon, wps[i].lat, wps[i].lon)

\* a built track of three points that heads south on its last segment, from
\* a waypoint without elevation to one with
C6_Witness ==
    /\ BuildOk
    /\ Len(bld_result[1].data) = 3
    /\ bld_result[1].data[3].heading = 180
    /\ bld_source.points[2].elevation = None
    /\ bld_result[1].data[3].altitude = ElevationMetres

\* C7: the builder fails whenever the source holds zero waypoints, a segment
\* without points included, and never returns a successful empty track.
C7_EmptySourceFails ==
    BuildReturned =>
        /\ Len(bld_source.points) = 0 => ~bld_result[1].ok
        /\ bld_result[1].ok => bld_result[1].data # <<>>

-----------------------------------------------------------------------------
(* Properties of the gradient window, under Spec *)

GradientReturned == gradient_call # NotCalled

\* C8: after new_gradient_image has computed the window for a position with
\* 0 <= position.distance <= total_distance, an offset >= 0 and a length > 0,
\* the stored window satisfies 0 <= gradient_start <= gradient_end <=
\* total_distance.
C8_WindowInsideTrack ==
    (GradientReturned
        /\ gradient_call[1].position.distance >= 0
        /\ gradient_call[1].position.distance <= gradient_call[1].total_distance
        /\ gradient_call[1].gradient_offset >= 0
        /\ gradient_call[1].gradient_length > 0) =>
        /\ 0 <= gradient_start
        /\ gradient_start <= gradient_end
        /\ gradient_end <= gradient_call[1].total_distance

\* a window computed for a position nearer to the start of the track than the
\* offset: the start is clamped to 0 and the end lies before the end of the
\* track
C8_Witness ==
    /\ GradientReturned
    /\ gradient_call[1].gradient_offset > gradient_call[1].position.distance
    /\ gradient_start = 0
    /\ gradient_end = gradient_call[1].gradient_length
    /\ gradient_end < gradient_call[1].total_distance

\* C9: whenever total_distance >= length, the window new_gradient_image
\* computes is exactly length metres wide, for every position on the track:
\* when the end is clamped to total_distance the start slides back to
\* end - length.
C9_WindowFullLength ==
    (GradientReturned
        /\ gradient_call[1].total_distance >= gradient_call[1].gradient_length) =>
        gradient_end - gradient_start = gradient_call[1].gradient_length

\* the end was clamped to the end of the track and the start slid back from
\* position.distance - offset to end - length
C9_Witness ==
    /\ GradientReturned
    /\ gradient_call[1].gradient_offset >= 0
    /\ gradient_end = gradient_call[1].total_distance
    /\ gradient_start = gradient_end - gradient_call[1].gradient_length
    /\ gradient_start > 0
    /\ gradient_call[1].position.distance - gradient_call[1].gradient_offset > gradient_start

\* C10: on a non-empty track sorted by distance the two selections agree: the
\* slice track[i..=j] holds exactly the points the linear scan selects, the
\* points with gradient_start <= distance <= gradient_end.
C10_SliceEqualsScan ==
    (GradientReturned /\ gpx_track # <<>> /\ IsSortedByDistance(gpx_track)) =>
        gradient_points = ScanWindow(gpx_track, gradient_start, gradient_end)

\* C11: new_gradient_image fails with "Insufficient points in segment"
\* whenever fewer than 2 points of the track have a distance inside the
\* window [gradient_start, gradient_end], and the failure is an Err value
\* handed to the caller.
C11_FailsBelowTwoInWindow ==
    (GradientReturned
        /\ Len(ScanWindow(gpx_track, gradient_start, gradient_end)) < 2) =>
        /\ ~gradient_call[1].ok
        /\ gradient_call[1].err = "Insufficient points in segment"

-----------------------------------------------------------------------------
(* Properties of the colours of a profile, under SpecProfile *)

ProfileDrawn    == prf_segments # NotCalled
ProfileSegments == 1..(Len(prf_points) - 1)
Horizontal(i)   == prf_points[i + 1].distance - prf_points[i].distance
Vertical(i)     == prf_points[i + 1].altitude - prf_points[i].altitude
GradientPct(i)  == prf_segments[1][i].gradient_pct
Band(i)         == prf_segments[1][i].color.band
SeverityOf(i)   == prf_segments[1][i].color.t[1]

\* C12: for every adjacent pair (p1, p2) of the points drawn, the slope is 0
\* when p2.distance - p1.distance < 0.1 m (equal and decreasing distances
\* included) and otherwise it is (p2.altitude - p1.altitude) /
\* (p2.distance - p1.distance) * 100, a quotient whose divisor is not zero.
C12_SlopeGuarded ==
    ProfileDrawn =>
        \A i \in ProfileSegments :
            /\ Horizontal(i) < SLOPE_MIN_HORIZONTAL => GradientPct(i) = 0
            /\ Horizontal(i) >= SLOPE_MIN_HORIZONTAL =>
                  /\ Horizontal(i) # 0
                  /\ GradientPct(i) * Horizontal(i) <= Vertical(i) * 1000
                  /\ Vertical(i) * 1000 < (GradientPct(i) + 1) * Horizontal(i)

\* a duplicate fix that climbs (slope 0) followed by a segment of exactly
\* 0.1 m that climbs 5 cm (slope 50 %)
C12_Witness ==
    /\ ProfileDrawn
    /\ Horizontal(1) = 0 /\ Vertical(1) = 20 /\ GradientPct(1) = 0
    /\ Horizontal(2) = SLOPE_MIN_HORIZONTAL /\ Vertical(2) = 5 /\ GradientPct(2) = 500

\* C13: for thresholds 0 < flat < extreme every slope falls into exactly one
\* band: downhill iff slope < -flat, extreme iff slope >= extreme, uphill iff
\* flat < slope < extreme, flat iff -flat <= slope <= flat; with flat 0.5 %
\* and extreme 16 %, 0.3 % is flat, 5 % uphill, 20 % extreme and -10 %
\* downhill.
C13_OneBandPerSlope ==
    (ProfileDrawn /\ 0 < prf_flat /\ prf_flat < prf_extreme) =>
        \A i \in ProfileSegments :
            LET slope == GradientPct(i)
            IN  /\ Band(i) \in {"downhill", "flat", "uphill", "extreme"}
                /\ Band(i) = "downhill" <=> slope < 0 - prf_flat
                /\ Band(i) = "extreme" <=> slope >= prf_extreme
                /\ Band(i) = "uphill" <=> (prf_flat < slope /\ slope < prf_extreme)
                /\ Band(i) = "flat" <=> (0 - prf_flat <= slope /\ slope <= prf_flat)
                /\ (prf_flat = 5 /\ prf_extreme = 160) =>
                      /\ slope = 3 => Band(i) = "flat"
                      /\ slope = 50 => Band(i) = "uphill"
                      /\ slope = 200 => Band(i) = "extreme"
                      /\ slope = 0 - 100 => Band(i) = "downhill"

\* with flat 0.5 % and extreme 16 %: a segment of exactly 16 % drawn in the
\* extreme colour after one of exactly 0.5 % drawn as flat
C13_Witness ==
    /\ ProfileDrawn
    /\ prf_flat = 5 /\ prf_extreme = 160
    /\ GradientPct(1) = 5 /\ Band(1) = "flat"
    /\ GradientPct(2) = 160 /\ Band(2) = "extreme"
    /\ prf_segments[1][2].color.rgba = <<0, 0, 0, 255>>

\* C14: within the uphill band and within the downhill band the severity t
\* does not decrease as |slope| grows, and 0 <= t <= 1 wherever gradient_color
\* computes a t.
C14_SeverityMonotone ==
    ProfileDrawn =>
        /\ \A i \in ProfileSegments :
              Band(i) # "extreme" =>
                 /\ 0 <= SeverityOf(i).num
                 /\ SeverityOf(i).num <= SeverityOf(i).den
                 /\ SeverityOf(i).den > 0
        /\ \A i, j \in ProfileSegments :
              (Band(i) = Band(j) /\ Band(i) \in {"uphill", "downhill"}
                  /\ Abs(GradientPct(i)) <= Abs(GradientPct(j))) =>
                 SeverityOf(i).num * SeverityOf(j).den <= SeverityOf(j).num * SeverityOf(i).den

\* two descents, the second steeper than the first and steep enough for the
\* severity to be clamped at 1
C14_Witness ==
    /\ ProfileDrawn
    /\ Band(1) = "downhill" /\ Band(2) = "downhill"
    /\ GradientPct(2) < GradientPct(1)
    /\ SeverityOf(1).num < SeverityOf(1).den
    /\ SeverityOf(2).num = SeverityOf(2).den
    /\ 0 - GradientPct(2) - prf_flat > prf_extreme

\* C15: in the downhill band the severity grows linearly from 0 at
\* slope = -flat to 1 at slope = -extreme, and is 1 for every slope steeper
\* than -extreme.
C15_DownhillReachesOneAtExtreme ==
    (ProfileDrawn /\ 0 < prf_flat /\ prf_flat < prf_extreme) =>
        \A i \in ProfileSegments :
            Band(i) = "downhill" =>
               LET slope == GradientPct(i)
                   t     == SeverityOf(i)
               IN  /\ slope <= 0 - prf_extreme => t.num = t.den
                   /\ slope > 0 - prf_extreme =>
                         t.num * (prf_extreme - prf_flat) = ((0 - prf_flat) - slope) * t.den

-----------------------------------------------------------------------------
(* Properties of the marker lookup and of the search on any slice, under    *)
(* SpecSearch                                                               *)

\* C17: for every non-empty list of points and every position distance, the
\* lookup of draw_gradient_marker selects the point find_closest_point
\* returns for the same list and distance: the same index, the same clamping
\* at both ends and the same tie-break to the earlier index.
C17_MarkerLookupIsSearch ==
    (SearchReturned /\ Len(srch_track) > 0) =>
        /\ srch_marker[1].found
        /\ srch_marker[1].index = srch_result[1].index
        /\ srch_marker[1].point = srch_result[1].point

\* a sorted list and a distance exactly half way between two of its points:
\* both lookups answer with the earlier of the two
C17_Witness ==
    /\ SearchReturned /\ SearchSorted /\ NoExactMatch
    /\ InsertionIndex > 0 /\ InsertionIndex < Len(srch_track)
    /\ (srch_target - srch_track[InsertionIndex].distance)
          = (srch_track[InsertionIndex + 1].distance - srch_target)
    /\ srch_marker[1].index = InsertionIndex - 1
    /\ srch_marker[1].point = Some(srch_track[InsertionIndex])

\* C19: on every non-empty slice, with distances out of order and runs of
\* equal distances included, and for every target, find_closest_point does
\* not panic and returns Some(point) with an index inside [0, length).
C19_NoPanicOnAnySlice ==
    (SearchReturned /\ Len(srch_track) > 0) =>
        /\ ~srch_result[1].panicked
        /\ srch_result[1].point # None
        /\ 0 <= srch_result[1].index
        /\ srch_result[1].index < Len(srch_track)

\* a slice out of order that holds a run of equal distances, searched for a
\* target above all of them: the search answers with the last index
C19_Witness ==
    /\ SearchReturned /\ ~SearchSorted
    /\ \E a \in 1..(Len(srch_track) - 1) : srch_track[a].distance = srch_track[a + 1].distance
    /\ \A a \in 1..Len(srch_track) : srch_track[a].distance < srch_target
    /\ srch_result[1].index = Len(srch_track) - 1
    /\ ~srch_result[1].panicked

-----------------------------------------------------------------------------
(* Properties of the marker of the gradient view *)

MarkerDrawn == gradient_marker # NotCalled

\* C18: when new_gradient_image(position) regenerates the profile, the marker
\* of the image it returns stands at the windowed point nearest to
\* position.distance, the position the window was computed from.
C18_MarkerAtRegenPosition ==
    (MarkerDrawn /\ gradient_marker[1].caller = "new_gradient_image") =>
        LET target == gradient_call[1].position.distance
            marker == gradient_marker[1].current_point
        IN  \A n \in 1..Len(gradient_points) :
               Abs(marker.distance - target) <= Abs(gradient_points[n].distance - target)

\* C16: whenever draw_gradient_marker draws the marker onto the cached
\* profile, the marker is plotted where the mapping of the cached profile
\* puts its TrackPoint: the width, the height, the window, the elevation
\* range and the vertical scale the marker is mapped with are those the
\* segments of the cached profile were mapped with, across regenerations,
\* marker-only frames, resizes and changes of the options.
C16_MarkerMappedAsProfile ==
    MarkerDrawn =>
        LET marker == gradient_marker[1]
        IN  /\ marker.mapping = marker.onto.mapping
            /\ marker.at = map_to_screen(marker.onto.mapping, marker.current_point.distance,
                                         marker.current_point.altitude)

\* C20: the track, once built, is never modified: every step of the lookups,
\* the gradient frames, the marker and the threads leaves gpx_track as it is,
\* and gpx_track changes only in the step in which update takes a non-empty
\* track from the channel of the file dialog, and then to exactly that track.
C20_TrackOnlyReplaced ==
    [][gpx_track' # gpx_track =>
          /\ open_dialog_channel # <<>>
          /\ Head(open_dialog_channel) # <<>>
          /\ gpx_track' = Head(open_dialog_channel)]_vars

\* a profile and its marker were drawn for one track, then another track was
\* received: the points of the profile are not all points of gpx_track
C20_Witness ==
    /\ gpx_file
    /\ gradient_call # NotCalled
    /\ MarkerDrawn /\ gradient_marker[1].caller = "update"
    /\ \E n \in 1..Len(gradient_points) :
          \A k \in 1..Len(gpx_track) : gpx_track[k] # gradient_points[n]
    /\ updated_distance > 0

-----------------------------------------------------------------------------
(* Properties of the options taken from the settings when a track is loaded *)

\* C30: after a track is loaded, the offset held in the gradient_offset cell,
\* which new_gradient_image reads, satisfies 0 <= offset < gradient_length
\* for every offset and length of the settings.
C30_OffsetInRange ==
    gpx_file => (0 <= gradient_offset /\ gradient_offset < gradient_length)

-----------------------------------------------------------------------------
(* Properties of a failed regeneration of the gradient view *)

\* the last regeneration failed although a profile was rendered before
RegenFailedAfterRender ==
    /\ gradient_call # NotCalled
    /\ ~gradient_call[1].ok
    /\ gradient_texture

\* C23: when new_gradient_image returns Err, the previously rendered frame is
\* not lost: the gradient texture is kept, and a later marker-only update can
\* still be drawn on the previously rendered profile (draw_gradient_marker
\* finds the cached pixmap and returns Ok for every position of the track).
C23_FrameKeptOnError ==
    RegenFailedAfterRender =>
        /\ gradient_texture
        /\ \A n \in 1..Len(gpx_track) :
              \A sr \in BinarySearchBy(gradient_points, gpx_track[n].distance) :
                 draw_gradient_marker(gradient_pixmap, gradient_points, gradient_start,
                                      gradient_end, vertical_scale, available_size.x,
                                      available_size.y, gpx_track[n], sr).ok

-----------------------------------------------------------------------------
(* Properties of the distance formulas and of calculate_bearing, under     *)
(* SpecGeodesy                                                              *)

GeodesyReturned == geo_call # NotCalled

\* C25: haversine_distance and ECEF_distance return a value >= 0 for every
\* pair of points, and 0 (within 1e-6 m) when both points are identical.
C25_DistanceNonNegative ==
    GeodesyReturned =>
        /\ AtLeast(geo_call[1].haversine, 0)
        /\ AtLeast(geo_call[1].ecef, 0)
        /\ geo_call[1].p1 = geo_call[1].p2 =>
              (Within(geo_call[1].haversine, 0) /\ Within(geo_call[1].ecef, 0))

\* C26: calculate_bearing returns a value in [0, 360) for every pair of
\* points, and 0 when both points are identical.
C26_BearingInRange ==
    GeodesyReturned =>
        /\ 0 <= geo_call[1].bearing /\ geo_call[1].bearing < 360
        /\ geo_call[1].p1 = geo_call[1].p2 => geo_call[1].bearing = 0

\* a bearing to the west: the raw bearing of atan2 is negative, between -180
\* and 0, and the result is above 180
C26_Witness ==
    /\ GeodesyReturned
    /\ geo_call[1].p2.lon < geo_call[1].p1.lon
    /\ bearing_deg(geo_call[1].p1.lat, geo_call[1].p1.lon,
                   geo_call[1].p2.lat, geo_call[1].p2.lon) < 0
    /\ geo_call[1].bearing > 180
-----------------------------------------------------------------------------
(* Properties of the receipt of a track and of the toolbar, under SpecLoad *)

\* update takes from the channel a track without points
EmptyTrackReceived ==
    /\ open_dialog_channel # <<>>
    /\ Head(open_dialog_channel) = <<>>
    /\ open_dialog_channel' = Tail(open_dialog_channel)

\* C24: when the file picked could not be processed or has no track point,
\* update leaves gpx_track, gpx_file, total_distance, the current position
\* and distance, the view mode, is_running and is_simulating as they were,
\* spawns no thread, and only raises the error notification.
C24_FailureLeavesState ==
    [][EmptyTrackReceived =>
          /\ UNCHANGED <<gpx_track, gpx_file, total_distance, current_position,
                         current_distance, updated_distance, current_mode, is_running,
                         is_simulating, pollers, simulators>>
          /\ toast' = "The selected GPX file contains no track points or could not be processed."
      ]_vars

\* a file was rejected while a simulation on the track loaded before is active
C24_Witness ==
    /\ toast = "The selected GPX file contains no track points or could not be processed."
    /\ gpx_file /\ total_distance > 0
    /\ is_simulating /\ ~is_running
    /\ Len(pollers) = 1 /\ Len(simulators) = 1
    /\ open_dialog_channel = <<>>
-----------------------------------------------------------------------------
(* Properties of update_distance_thread, under SpecPollers *)

\* the last store into updated_distance was made by a poller
PollerStored == last_store # NotCalled /\ last_store[1].kind = "poller"

\* C21: updated_distance has one background writer at a time: once a second
\* track is loaded, the poller spawned for the earlier track no longer goes
\* round its loop and stores.
C21_OnlyLatestPollerStores == PollerStored => last_store[1].latest

\* C22: the successive distances one poller stores never decrease, whatever
\* the order of the samples and the changes of requested_delta.
C22_StoresNonDecreasing == PollerStored => ~last_store[1].went_back
-----------------------------------------------------------------------------
(* Properties of the simulation, under SpecSimulation *)

\* the last store into updated_distance was made by a simulation thread
SimulatorStored == last_store # NotCalled /\ last_store[1].kind = "simulator"

\* C27: while a simulation is active (is_simulating true, is_running false)
\* update_distance_thread stores nothing into updated_distance or rider_data,
\* however its is_running check and its read interleave with Start Simulation.
C27_NoPollerStoreWhileSimulating ==
    (last_store # NotCalled /\ last_store[1].kind = "poller")
        => ~last_store[1].during_simulation

\* C28: after Stop Simulation the simulation thread that was running leaves
\* its loop, also when Start Simulation is pressed again before it wakes: a
\* simulation thread that is no longer the one started last does not go round
\* its loop and publish.
C28_OnlyLatestSimulatorPublishes == SimulatorStored => last_store[1].latest

\* C29: at the moment a simulate_movement_thread returns, is_simulating is
\* false and is_running is true.
C29_ReturnHandsBackToPolling ==
    \A n \in 1..Len(simulators) :
        simulators[n].returned # None
            => /\ ~simulators[n].returned[1].is_simulating
               /\ simulators[n].returned[1].is_running
=============================================================================
